---- MODULE Spec2Model ----
(***************************************************************************)
(* Model of src/hive.py: class Hive, a bridge that drives a child process  *)
(* (node hive_cli.js) over line-delimited JSON on its stdin/stdout.        *)
(*                                                                         *)
(* One bridge instance, already constructed (Popen succeeded).  Callers    *)
(* are the threads that use it.  _send_command is three steps, each one a  *)
(* system call boundary: the poll (line 38), the write+flush (41-44) and   *)
(* the readline with the decoding that follows it (46-59).  close() is     *)
(* three steps as well: stdin.close() (121), terminate() (122), wait()     *)
(* (123).  The child is an opaque worker: it answers a command with a      *)
(* line, closes one of its streams, or exits.                              *)
(***************************************************************************)
EXTENDS Naturals, Integers, Sequences, FiniteSets, TLC

\* bound on the number of calls of _send_command started on the bridge
MaxCalls == 3
\* bound on the number of calls of close() started on the bridge
MaxCloses == 3

\* the threads that use the bridge
Callers == {"t1", "t2"}

\* the public operations of Hive that go through _send_command
Methods == {"init", "add_file", "embed", "find",
            "insert_one", "delete_one", "update_one", "remove_file"}

\* the action name each operation puts in the command envelope
ActionOf(m) ==
    CASE m = "init"        -> "init"
      [] m = "add_file"    -> "addFile"
      [] m = "embed"       -> "embed"
      [] m = "find"        -> "find"
      [] m = "insert_one"  -> "insertOne"
      [] m = "delete_one"  -> "deleteOne"
      [] m = "update_one"  -> "updateOne"
      [] m = "remove_file" -> "removeFile"

(***************************************************************************)
(* Paths and the args of a command.  A path is its components and whether  *)
(* it starts at the root; os.path.abspath joins a relative path to the     *)
(* working directory and normalizes the result (os.path.normpath).         *)
(***************************************************************************)
Path(abs, parts) == [abs |-> abs, parts |-> parts]

\* os.getcwd() of the caller
Cwd == Path(TRUE, <<"home", "u">>)

\* os.path.isabs
isabs(p) == p.abs

\* os.path.join(a, b)
join(a, b) == IF isabs(b) THEN b ELSE Path(a.abs, a.parts \o b.parts)

RECURSIVE NormParts(_, _, _)
\* the component loop of os.path.normpath: "." is dropped, ".." removes the
\* component before it, is dropped at the root and kept in front of a
\* relative path
NormParts(parts, acc, abs) ==
    IF parts = <<>> THEN acc
    ELSE LET c == Head(parts) IN
         IF c = "."
         THEN NormParts(Tail(parts), acc, abs)
         ELSE IF c = ".."
         THEN IF acc # <<>> /\ acc[Len(acc)] # ".."
              THEN NormParts(Tail(parts), SubSeq(acc, 1, Len(acc) - 1), abs)
              ELSE IF abs
              THEN NormParts(Tail(parts), acc, abs)
              ELSE NormParts(Tail(parts), Append(acc, c), abs)
         ELSE NormParts(Tail(parts), Append(acc, c), abs)

\* os.path.normpath
normpath(p) == Path(p.abs, NormParts(p.parts, <<>>, p.abs))

\* os.path.abspath
abspath(p) == normpath(IF isabs(p) THEN p ELSE join(Cwd, p))

\* the paths a caller may pass: a.txt, ../img.png, ./d/../x, the empty
\* path, /data/a.png and /a/../../b
Paths == {
    Path(FALSE, <<"a.txt">>),
    Path(FALSE, <<"..", "img.png">>),
    Path(FALSE, <<".", "d", "..", "x">>),
    Path(FALSE, <<>>),
    Path(TRUE, <<"data", "a.png">>),
    Path(TRUE, <<"a", "..", "..", "b">>) }

\* what a caller passes to an operation: path is file_path of add_file and
\* remove_file and input_data of embed, type the type of embed, and
\* serializable tells whether json.dumps accepts the values passed
Inputs == [path : Paths, type : {"text", "image"}, serializable : BOOLEAN]

\* the inputs of the runs that do not look at the args
PlainInputs == {x \in Inputs : x.path = Path(FALSE, <<"a.txt">>) /\ x.type = "text"}

NoPath == Path(FALSE, <<>>)

\* lines 61-114: the args each operation hands to _send_command; keys are
\* the keys of the dict, filePath and input the paths under those keys
ArgsOf(m, x) ==
    LET args(keys, filePath, input, type) ==
            [keys |-> keys, filePath |-> filePath, input |-> input,
             type |-> type, serializable |-> x.serializable]
    IN
    CASE m = "init"        -> args({}, NoPath, NoPath, "")
      [] m = "add_file"    -> args({"filePath"}, abspath(x.path), NoPath, "")
      [] m = "embed"       -> args({"input", "type"}, NoPath, x.path, x.type)
      [] m = "find"        -> args({"queryVector", "topK"}, NoPath, NoPath, "")
      [] m = "insert_one"  -> args({"entry"}, NoPath, NoPath, "")
      [] m = "delete_one"  -> args({"id"}, NoPath, NoPath, "")
      [] m = "update_one"  -> args({"query", "entry"}, NoPath, NoPath, "")
      [] m = "remove_file" -> args({"filePath"}, abspath(x.path), NoPath, "")

(***************************************************************************)
(* Python values, as far as the decoding of a response looks at them.      *)
(***************************************************************************)
PyNone   == [ty |-> "None", v |-> "None"]
Absent   == [ty |-> "absent", v |-> ""]
PyStr(s) == [ty |-> "str", v |-> s]
PyInt(s) == [ty |-> "int", v |-> s]
PyList(s) == [ty |-> "list", v |-> s]

\* Truthy as `is not None` would test it
Truthy_IsNotNone(x) == x.ty # "None"

\* bool(x) of Python, used by `if response.get("error")`
Truthy(x) ==
    CASE x.ty = "None" -> FALSE
      [] x.ty = "str"  -> x.v # ""
      [] x.ty = "int"  -> x.v # "0"
      [] x.ty = "list" -> x.v # "[]"
      [] OTHER         -> FALSE

\* the lines the child may print (each ends with the newline print adds)
Lines == {
    "{\"data\":[0.1,0.2]}\n",
    "{\"data\":null}\n",
    "{}\n",
    "{\"error\":\"not found\"}\n",
    "{\"error\":\"\"}\n",
    "{\"error\":\"x\",\"data\":1}\n",
    "{\"error\":null,\"data\":3}\n",
    "[1]\n",
    "null\n",
    "5\n",
    "not json\n",
    "\n" }

JsonError == [ok |-> FALSE, ty |-> "", v |-> "", error |-> Absent, data |-> Absent]
JsonDict(e, d) == [ok |-> TRUE, ty |-> "dict", v |-> "", error |-> e, data |-> d]
JsonOther(ty, v) == [ok |-> TRUE, ty |-> ty, v |-> v, error |-> Absent, data |-> Absent]

\* json.loads(line): ok = FALSE stands for json.JSONDecodeError
json_loads(line) ==
    CASE line = "{\"data\":[0.1,0.2]}\n"       -> JsonDict(Absent, PyList("[0.1, 0.2]"))
      [] line = "{\"data\":null}\n"            -> JsonDict(Absent, PyNone)
      [] line = "{}\n"                         -> JsonDict(Absent, Absent)
      [] line = "{\"error\":\"not found\"}\n"  -> JsonDict(PyStr("not found"), Absent)
      [] line = "{\"error\":\"\"}\n"           -> JsonDict(PyStr(""), Absent)
      [] line = "{\"error\":\"x\",\"data\":1}\n" -> JsonDict(PyStr("x"), PyInt("1"))
      [] line = "{\"error\":null,\"data\":3}\n" -> JsonDict(PyNone, PyInt("3"))
      [] line = "[1]\n"                        -> JsonOther("list", "[1]")
      [] line = "null\n"                       -> JsonOther("None", "None")
      [] line = "5\n"                          -> JsonOther("int", "5")
      [] OTHER                                 -> JsonError

\* dict.get(key): None when the key is missing
dict_get(field) == IF field.ty = "absent" THEN PyNone ELSE field

(***************************************************************************)
(* Outcomes of a call.  kind is the Python exception class ("return" for a *)
(* normal return), at the source line that raises or returns, msg the      *)
(* exception message, val the returned value, line the raw line read and   *)
(* re the command whose response that line is.                             *)
(***************************************************************************)
NoResult == [kind |-> "none", at |-> 0, msg |-> "", val |-> PyNone, line |-> "", re |-> 0]
Raise(kind, at, msg, line, re) ==
    [kind |-> kind, at |-> at, msg |-> msg, val |-> PyNone, line |-> line, re |-> re]
Return(val, line, re) ==
    [kind |-> "return", at |-> 55, msg |-> "", val |-> val, line |-> line, re |-> re]

\* Decode with the child's error text left out of the message of line 53
Decode_DropsErrorText(response_line, re) ==
    IF response_line = ""
    THEN Raise("RuntimeError", 48,
               "Hive Node.js process closed the connection (no response).",
               response_line, re)
    ELSE LET response == json_loads(response_line) IN
         IF ~response.ok
         THEN Raise("RuntimeError", 59,
                    "Failed to decode response from Hive: " \o response_line,
                    response_line, re)
         ELSE IF response.ty # "dict"
         THEN Raise("AttributeError", 52,
                    "object has no attribute 'get'", response_line, re)
         ELSE IF Truthy(dict_get(response.error))
         THEN Raise("RuntimeError", 53, "Hive Error: ", response_line, re)
         ELSE Return(dict_get(response.data), response_line, re)

\* lines 47-59 of _send_command, applied to the line readline returned
Decode(response_line, re) ==
    IF response_line = ""
    THEN Raise("RuntimeError", 48,
               "Hive Node.js process closed the connection (no response).",
               response_line, re)
    ELSE LET response == json_loads(response_line) IN
         IF ~response.ok
         THEN Raise("RuntimeError", 59,
                    "Failed to decode response from Hive: " \o response_line,
                    response_line, re)
         ELSE IF response.ty # "dict"
         THEN Raise("AttributeError", 52,
                    "object has no attribute 'get'", response_line, re)
         ELSE IF Truthy(dict_get(response.error))
         THEN Raise("RuntimeError", 53,
                    "Hive Error: " \o response.error.v, response_line, re)
         ELSE Return(dict_get(response.data), response_line, re)

VARIABLES
    childState,   \* the child process: "running" or "exited"
    childIn,      \* the child's end of the stdin pipe: "open" or "closed"
    childOut,     \* the child's end of the stdout pipe: "open" or "closed"
    sigterm,      \* SIGTERM has been sent to the child
    returncode,   \* Popen.returncode: "None" or "set"
    stdinClosed,  \* self.process.stdin.closed
    pending,      \* the stdin buffer holds data a failed flush left behind
    inq,          \* command lines in the stdin pipe, not yet read by the child
    outq,         \* response lines in the stdout pipe, not yet read
    pc,           \* where each caller is
    cur,          \* the command of the caller's last call that passed line 38
    result,       \* the outcome of the caller's last call that ended
    closeres,     \* the outcome of the caller's last close()
    closepre,     \* what held when the caller's last close() started
    scope,        \* the caller's with-block: "out", "in", "exit", "left"
    calls,        \* number of _send_command calls started
    closes,       \* number of close() calls started
    closed,       \* some close() has returned
    lateCall,     \* some call started after a close() had returned
    written,      \* number of command lines written into the stdin pipe
    consumed      \* number of response lines readline has returned

vars == <<childState, childIn, childOut, sigterm, returncode, stdinClosed,
          pending, inq, outq, pc, cur, result, closeres, closepre, scope,
          calls, closes, closed, lateCall, written, consumed>>

childVars  == <<childState, childIn, childOut>>
closeVars  == <<closeres, closepre, scope, closes, closed>>
ioVars     == <<written, consumed>>

NoCmd == [id |-> 0, action |-> "",
          args |-> [keys |-> {}, filePath |-> NoPath, input |-> NoPath,
                    type |-> "", serializable |-> TRUE]]
NoPre == [second |-> FALSE, dead |-> FALSE]

\* the state after Hive.__init__ has returned
Init ==
    /\ childState = "running"
    /\ childIn = "open"
    /\ childOut = "open"
    /\ sigterm = FALSE
    /\ returncode = "None"
    /\ stdinClosed = FALSE
    /\ pending = FALSE
    /\ inq = <<>>
    /\ outq = <<>>
    /\ pc = [t \in Callers |-> "idle"]
    /\ cur = [t \in Callers |-> NoCmd]
    /\ result = [t \in Callers |-> NoResult]
    /\ closeres = [t \in Callers |-> "none"]
    /\ closepre = [t \in Callers |-> NoPre]
    /\ scope = [t \in Callers |-> "out"]
    /\ calls = 0
    /\ closes = 0
    /\ closed = FALSE
    /\ lateCall = FALSE
    /\ written = 0
    /\ consumed = 0

\* poll() that only looks at the return code already stored
PollCode_NoWaitpid == returncode

\* Popen.poll(): the return code once known, else a non-blocking waitpid
PollCode == IF returncode = "set" \/ childState = "exited" THEN "set" ELSE "None"


(***************************************************************************)
(* __init__                                                                *)
(***************************************************************************)

\* the script_path and node_path arguments, and the files they name:
\* "None" is the default of script_path, "hive_cli.js" a script that exists,
\* "missing.js" one that does not; "node" is an executable that launches,
\* "nonode" names no file, "notexec" a file without execute permission
ScriptArgs == {"None", "hive_cli.js", "missing.js"}
NodeArgs   == {"node", "nonode", "notexec"}

\* line 17: the default script, next to hive.py
DefaultScript == "<dir of hive.py>/hive_cli.js"

\* line 19, os.path.exists; colocated tells whether the default script exists
os_path_exists(path, colocated) ==
    CASE path = "hive_cli.js"  -> TRUE
      [] path = DefaultScript  -> colocated
      [] OTHER                 -> FALSE

\* the state before Hive(...) is called: no bridge and no child process
InitCtor ==
    /\ childState = "none"
    /\ childIn = "none"
    /\ childOut = "none"
    /\ sigterm = FALSE
    /\ returncode = "None"
    /\ stdinClosed = FALSE
    /\ pending = FALSE
    /\ inq = <<>>
    /\ outq = <<>>
    /\ pc = [t \in Callers |-> "new"]
    /\ cur = [t \in Callers |-> NoCmd]
    /\ result = [t \in Callers |-> NoResult]
    /\ closeres = [t \in Callers |-> "none"]
    /\ closepre = [t \in Callers |-> NoPre]
    /\ scope = [t \in Callers |-> "out"]
    /\ calls = 0
    /\ closes = 0
    /\ closed = FALSE
    /\ lateCall = FALSE
    /\ written = 0
    /\ consumed = 0

\* __init__ that starts the child before it looks for the script
Construct_SpawnFirst(t, node_path, script_path, colocated) ==
    LET script == IF script_path = "None" THEN DefaultScript ELSE script_path IN
    /\ pc[t] = "new"
    /\ IF node_path = "node"
       THEN /\ childState' = "running"
            /\ childIn' = "open"
            /\ childOut' = "open"
            /\ IF os_path_exists(script, colocated)
               THEN /\ pc' = [u \in Callers |-> "idle"]
                    /\ result' = [result EXCEPT ![t] = NoResult]
               ELSE /\ result' = [result EXCEPT ![t] =
                           Raise("FileNotFoundError", 20,
                                 "Could not find hive_cli.js at " \o script, "", 0)]
                    /\ UNCHANGED pc
       ELSE /\ result' = [result EXCEPT ![t] =
                   Raise("FileNotFoundError", 32,
                         "Node.js executable not found at '" \o node_path
                             \o "'. Please ensure Node.js is installed.", "", 0)]
            /\ UNCHANGED <<childVars, pc>>
    /\ UNCHANGED <<sigterm, returncode, stdinClosed, pending, inq, outq, cur,
                   closeVars, calls, lateCall, ioVars>>

\* lines 15-32: the script is looked for, then subprocess.Popen starts the
\* child; Popen raises FileNotFoundError for a missing executable and
\* PermissionError for a file that cannot be executed
Construct(t, node_path, script_path, colocated) ==
    LET script == IF script_path = "None" THEN DefaultScript ELSE script_path IN
    /\ pc[t] = "new"
    /\ IF ~os_path_exists(script, colocated)
       THEN /\ result' = [result EXCEPT ![t] =
                   Raise("FileNotFoundError", 20,
                         "Could not find hive_cli.js at " \o script, "", 0)]
            /\ UNCHANGED <<childVars, pc>>
       ELSE IF node_path = "nonode"
       THEN /\ result' = [result EXCEPT ![t] =
                   Raise("FileNotFoundError", 32,
                         "Node.js executable not found at '" \o node_path
                             \o "'. Please ensure Node.js is installed.", "", 0)]
            /\ UNCHANGED <<childVars, pc>>
       ELSE IF node_path = "notexec"
       THEN /\ result' = [result EXCEPT ![t] =
                   Raise("PermissionError", 23,
                         "[Errno 13] Permission denied: '" \o node_path \o "'", "", 0)]
            /\ UNCHANGED <<childVars, pc>>
       ELSE /\ childState' = "running"
            /\ childIn' = "open"
            /\ childOut' = "open"
            /\ pc' = [u \in Callers |-> "idle"]
            /\ result' = [result EXCEPT ![t] = NoResult]
    /\ UNCHANGED <<sigterm, returncode, stdinClosed, pending, inq, outq, cur,
                   closeVars, calls, lateCall, ioVars>>

(***************************************************************************)
(* _send_command                                                           *)
(***************************************************************************)

\* lines 38-39: the liveness check that opens every call
Poll(t, m, x) ==
    /\ pc[t] = "idle"
    /\ calls < MaxCalls
    /\ calls' = calls + 1
    /\ lateCall' = (lateCall \/ closed)
    /\ returncode' = PollCode
    /\ IF PollCode # "None"
       THEN /\ result' = [result EXCEPT ![t] =
                   Raise("RuntimeError", 39,
                         "Hive Node.js process has terminated unexpectedly.", "", 0)]
            /\ UNCHANGED <<pc, cur>>
       ELSE /\ UNCHANGED result
            /\ cur' = [cur EXCEPT ![t] = [id |-> calls + 1, action |-> ActionOf(m),
                                            args |-> ArgsOf(m, x)]]
            /\ pc' = [pc EXCEPT ![t] = "write"]
    /\ UNCHANGED <<childVars, sigterm, stdinClosed, pending, inq, outq, closeVars>>
    /\ UNCHANGED ioVars

\* Write without the except clause of lines 56-57
Write_NoTranslate(t) ==
    /\ pc[t] = "write"
    /\ IF ~cur[t].args.serializable
       THEN /\ result' = [result EXCEPT ![t] =
                   Raise("TypeError", 41, "Object is not JSON serializable", "", 0)]
            /\ pc' = [pc EXCEPT ![t] = "idle"]
            /\ UNCHANGED <<pending, inq>>
       ELSE IF stdinClosed
       THEN /\ result' = [result EXCEPT ![t] =
                   Raise("ValueError", 43, "I/O operation on closed file.", "", 0)]
            /\ pc' = [pc EXCEPT ![t] = "idle"]
            /\ UNCHANGED <<pending, inq>>
       ELSE IF childIn = "closed"
       THEN /\ result' = [result EXCEPT ![t] =
                   Raise("BrokenPipeError", 43, "[Errno 32] Broken pipe", "", 0)]
            /\ pending' = TRUE
            /\ pc' = [pc EXCEPT ![t] = "idle"]
            /\ UNCHANGED inq
       ELSE /\ inq' = Append(inq, cur[t])
            /\ pc' = [pc EXCEPT ![t] = "read"]
            /\ UNCHANGED <<result, pending>>
    /\ written' = IF pc'[t] = "read" THEN written + 1 ELSE written
    /\ UNCHANGED <<childVars, sigterm, returncode, stdinClosed, outq, cur,
                   closeVars, calls, lateCall, consumed>>

\* Write that serializes straight into the pipe (json.dump) and so leaves the
\* start of a command behind when the args cannot be serialized
Write_StreamingDump(t) ==
    /\ pc[t] = "write"
    /\ IF ~cur[t].args.serializable
       THEN /\ result' = [result EXCEPT ![t] =
                   Raise("TypeError", 41, "Object is not JSON serializable", "", 0)]
            /\ pc' = [pc EXCEPT ![t] = "idle"]
            /\ inq' = Append(inq, cur[t])
            /\ UNCHANGED pending
       ELSE IF stdinClosed
       THEN /\ result' = [result EXCEPT ![t] =
                   Raise("ValueError", 43, "I/O operation on closed file.", "", 0)]
            /\ pc' = [pc EXCEPT ![t] = "idle"]
            /\ UNCHANGED <<pending, inq>>
       ELSE IF childIn = "closed"
       THEN /\ result' = [result EXCEPT ![t] =
                   Raise("RuntimeError", 57, "Hive Node.js process pipe broken.", "", 0)]
            /\ pending' = TRUE
            /\ pc' = [pc EXCEPT ![t] = "idle"]
            /\ UNCHANGED inq
       ELSE /\ inq' = Append(inq, cur[t])
            /\ pc' = [pc EXCEPT ![t] = "read"]
            /\ UNCHANGED <<result, pending>>
    /\ written' = IF pc'[t] = "read" THEN written + 1 ELSE written
    /\ UNCHANGED <<childVars, sigterm, returncode, stdinClosed, outq, cur,
                   closeVars, calls, lateCall, consumed>>

\* Write that returns once the command is flushed, without the read
Write_NoRead(t) ==
    /\ pc[t] = "write"
    /\ IF ~cur[t].args.serializable
       THEN /\ result' = [result EXCEPT ![t] =
                   Raise("TypeError", 41, "Object is not JSON serializable", "", 0)]
            /\ pc' = [pc EXCEPT ![t] = "idle"]
            /\ UNCHANGED <<pending, inq>>
       ELSE IF stdinClosed
       THEN /\ result' = [result EXCEPT ![t] =
                   Raise("ValueError", 43, "I/O operation on closed file.", "", 0)]
            /\ pc' = [pc EXCEPT ![t] = "idle"]
            /\ UNCHANGED <<pending, inq>>
       ELSE IF childIn = "closed"
       THEN /\ result' = [result EXCEPT ![t] =
                   Raise("RuntimeError", 57, "Hive Node.js process pipe broken.", "", 0)]
            /\ pending' = TRUE
            /\ pc' = [pc EXCEPT ![t] = "idle"]
            /\ UNCHANGED inq
       ELSE /\ inq' = Append(inq, cur[t])
            /\ pc' = [pc EXCEPT ![t] = "idle"]
            /\ UNCHANGED <<result, pending>>
    /\ written' = IF inq' # inq THEN written + 1 ELSE written
    /\ UNCHANGED <<childVars, sigterm, returncode, stdinClosed, outq, cur,
                   closeVars, calls, lateCall, consumed>>

\* lines 41-44 and 56-57: json.dumps, stdin.write, stdin.flush
Write(t) ==
    /\ pc[t] = "write"
    /\ IF ~cur[t].args.serializable
       THEN /\ result' = [result EXCEPT ![t] =
                   Raise("TypeError", 41, "Object is not JSON serializable", "", 0)]
            /\ pc' = [pc EXCEPT ![t] = "idle"]
            /\ UNCHANGED <<pending, inq>>
       ELSE IF stdinClosed
       THEN /\ result' = [result EXCEPT ![t] =
                   Raise("ValueError", 43, "I/O operation on closed file.", "", 0)]
            /\ pc' = [pc EXCEPT ![t] = "idle"]
            /\ UNCHANGED <<pending, inq>>
       ELSE IF childIn = "closed"
       THEN /\ result' = [result EXCEPT ![t] =
                   Raise("RuntimeError", 57, "Hive Node.js process pipe broken.", "", 0)]
            /\ pending' = TRUE
            /\ pc' = [pc EXCEPT ![t] = "idle"]
            /\ UNCHANGED inq
       ELSE /\ inq' = Append(inq, cur[t])
            /\ pc' = [pc EXCEPT ![t] = "read"]
            /\ UNCHANGED <<result, pending>>
    /\ written' = IF pc'[t] = "read" THEN written + 1 ELSE written
    /\ UNCHANGED <<childVars, sigterm, returncode, stdinClosed, outq, cur,
                   closeVars, calls, lateCall, consumed>>

\* Read that treats the end of the child's output as the end of the bridge
Read_Terminal(t) ==
    /\ pc[t] = "read"
    /\ \/ /\ outq # <<>>
          /\ result' = [result EXCEPT ![t] = Decode(Head(outq).line, Head(outq).re)]
          /\ outq' = Tail(outq)
          /\ consumed' = consumed + 1
          /\ UNCHANGED returncode
       \/ /\ outq = <<>>
          /\ childOut = "closed"
          /\ result' = [result EXCEPT ![t] = Decode("", 0)]
          /\ returncode' = "set"
          /\ UNCHANGED <<outq, consumed>>
    /\ pc' = [pc EXCEPT ![t] = "idle"]
    /\ UNCHANGED <<childVars, sigterm, stdinClosed, pending, inq, cur,
                   closeVars, calls, lateCall, written>>

\* Read that reads again after a line it cannot decode
Read_SkipsLine(t) ==
    /\ pc[t] = "read"
    /\ \/ /\ outq # <<>>
          /\ result' = [result EXCEPT ![t] = Decode(Head(outq).line, Head(outq).re)]
          /\ outq' = Tail(outq)
          /\ consumed' = consumed + 1
       \/ /\ outq = <<>>
          /\ childOut = "closed"
          /\ result' = [result EXCEPT ![t] = Decode("", 0)]
          /\ UNCHANGED <<outq, consumed>>
    /\ pc' = [pc EXCEPT ![t] =
               IF outq # <<>> /\ ~json_loads(Head(outq).line).ok THEN "read" ELSE "idle"]
    /\ UNCHANGED <<childVars, sigterm, returncode, stdinClosed, pending, inq, cur,
                   closeVars, calls, lateCall, written>>

\* Read whose readline never returns at the end of the child's output
Read_NoEof(t) ==
    /\ pc[t] = "read"
    /\ \/ /\ outq # <<>>
          /\ result' = [result EXCEPT ![t] = Decode(Head(outq).line, Head(outq).re)]
          /\ outq' = Tail(outq)
          /\ consumed' = consumed + 1
       \/ /\ outq = <<>>
          /\ childOut = "closed"
          /\ FALSE
          /\ result' = [result EXCEPT ![t] = Decode("", 0)]
          /\ UNCHANGED <<outq, consumed>>
    /\ pc' = [pc EXCEPT ![t] = "idle"]
    /\ UNCHANGED <<childVars, sigterm, returncode, stdinClosed, pending, inq, cur,
                   closeVars, calls, lateCall, written>>

\* lines 46-59: stdout.readline() and the decoding of what it returned;
\* readline blocks until a line is there or every write end is closed
Read(t) ==
    /\ pc[t] = "read"
    /\ \/ /\ outq # <<>>
          /\ result' = [result EXCEPT ![t] = Decode(Head(outq).line, Head(outq).re)]
          /\ outq' = Tail(outq)
          /\ consumed' = consumed + 1
       \/ /\ outq = <<>>
          /\ childOut = "closed"
          /\ result' = [result EXCEPT ![t] = Decode("", 0)]
          /\ UNCHANGED <<outq, consumed>>
    /\ pc' = [pc EXCEPT ![t] = "idle"]
    /\ UNCHANGED <<childVars, sigterm, returncode, stdinClosed, pending, inq, cur,
                   closeVars, calls, lateCall, written>>

(***************************************************************************)
(* close, __enter__, __exit__                                              *)
(***************************************************************************)

\* what the completion of close() does to the with-block of the caller
Leave(t) == [scope EXCEPT ![t] = IF scope[t] = "exit" THEN "left" ELSE scope[t]]

\* lines 120-121: `if self.process` (a Popen object, always true) and
\* stdin.close(), which flushes what a failed flush left in the buffer
CloseStdin(t, sc) ==
    /\ pc[t] = "idle"
    /\ closes < MaxCloses
    /\ closes' = closes + 1
    /\ closepre' = [closepre EXCEPT ![t] =
                       [second |-> closed, dead |-> childState = "exited"]]
    /\ stdinClosed' = TRUE
    /\ pending' = FALSE
    /\ IF ~stdinClosed /\ pending
       THEN /\ closeres' = [closeres EXCEPT ![t] = "BrokenPipeError"]
            /\ scope' = [scope EXCEPT ![t] = IF sc = "exit" THEN "left" ELSE sc]
            /\ UNCHANGED pc
       ELSE /\ closeres' = [closeres EXCEPT ![t] = "none"]
            /\ scope' = [scope EXCEPT ![t] = sc]
            /\ pc' = [pc EXCEPT ![t] = "terminate"]
    /\ UNCHANGED <<childVars, sigterm, returncode, inq, outq, cur, result,
                   calls, closed, lateCall>>
    /\ UNCHANGED ioVars

\* lines 116-121: close() called by the caller itself
Close(t) ==
    /\ scope[t] # "exit"
    /\ CloseStdin(t, scope[t])

\* lines 125-126: __enter__
Enter(t) ==
    /\ pc[t] = "idle"
    /\ \A u \in Callers : scope[u] = "out"
    /\ scope' = [scope EXCEPT ![t] = "in"]
    /\ UNCHANGED <<childVars, sigterm, returncode, stdinClosed, pending, inq, outq,
                   pc, cur, result, closeres, closepre, calls, closes, closed,
                   lateCall>>
    /\ UNCHANGED ioVars

\* lines 128-129: __exit__, on a normal or an exceptional end of the block
Exit(t) ==
    /\ scope[t] = "in"
    /\ CloseStdin(t, "exit")

\* line 122: terminate(), which polls and signals a child not yet reaped
Terminate(t) ==
    /\ pc[t] = "terminate"
    /\ returncode' = PollCode
    /\ sigterm' = (sigterm \/ PollCode = "None")
    /\ pc' = [pc EXCEPT ![t] = "wait"]
    /\ UNCHANGED <<childVars, stdinClosed, pending, inq, outq, cur, result,
                   closeVars, calls, lateCall>>
    /\ UNCHANGED ioVars

\* close() that returns after terminate() without waiting for the exit
Wait_NoReap(t) ==
    /\ pc[t] = "wait"
    /\ pc' = [pc EXCEPT ![t] = "idle"]
    /\ closeres' = [closeres EXCEPT ![t] = "returned"]
    /\ closed' = TRUE
    /\ scope' = Leave(t)
    /\ UNCHANGED <<childVars, sigterm, returncode, stdinClosed, pending, inq, outq,
                   cur, result, closepre, calls, closes, lateCall>>
    /\ UNCHANGED ioVars

\* line 123: wait(), which blocks until the child has exited
Wait(t) ==
    /\ pc[t] = "wait"
    /\ PollCode = "set"
    /\ returncode' = "set"
    /\ pc' = [pc EXCEPT ![t] = "idle"]
    /\ closeres' = [closeres EXCEPT ![t] = "returned"]
    /\ closed' = TRUE
    /\ scope' = Leave(t)
    /\ UNCHANGED <<childVars, sigterm, stdinClosed, pending, inq, outq, cur,
                   result, closepre, calls, closes, lateCall>>
    /\ UNCHANGED ioVars

(***************************************************************************)
(* The child process                                                       *)
(***************************************************************************)

\* the worker reads one command line and prints one line for it
ChildRespond(line) ==
    /\ childState = "running"
    /\ childIn = "open"
    /\ childOut = "open"
    /\ inq # <<>>
    /\ inq' = Tail(inq)
    /\ outq' = Append(outq, [re |-> Head(inq).id, line |-> line])
    /\ UNCHANGED <<childVars, sigterm, returncode, stdinClosed, pending, pc, cur,
                   result, closeVars, calls, lateCall>>
    /\ UNCHANGED ioVars

\* the worker closes its standard input and keeps running
ChildCloseStdin ==
    /\ childState = "running"
    /\ childIn = "open"
    /\ childIn' = "closed"
    /\ inq' = <<>>
    /\ UNCHANGED <<childState, childOut, sigterm, returncode, stdinClosed, pending,
                   outq, pc, cur, result, closeVars, calls, lateCall>>
    /\ UNCHANGED ioVars

\* the worker closes its standard output and keeps running
ChildCloseStdout ==
    /\ childState = "running"
    /\ childOut = "open"
    /\ childOut' = "closed"
    /\ UNCHANGED <<childState, childIn, sigterm, returncode, stdinClosed, pending,
                   inq, outq, pc, cur, result, closeVars, calls, lateCall>>
    /\ UNCHANGED ioVars

\* the worker exits: end of input, SIGTERM, a crash, or a kill from outside
ChildExit ==
    /\ childState = "running"
    /\ childState' = "exited"
    /\ childIn' = "closed"
    /\ childOut' = "closed"
    /\ inq' = <<>>
    /\ UNCHANGED <<sigterm, returncode, stdinClosed, pending, outq, pc, cur,
                   result, closeVars, calls, lateCall>>
    /\ UNCHANGED ioVars

\* the caller of a bridge used from a single thread of control
Main == {"t1"}

\* one caller uses the bridge, in a with-block or not, and closes it
Next ==
    \/ \E t \in Main : \E m \in Methods : \E x \in PlainInputs : Poll(t, m, x)
    \/ \E t \in Main : Write(t)
    \/ \E t \in Main : Read(t)
    \/ \E t \in Main : Close(t)
    \/ \E t \in Main : Enter(t)
    \/ \E t \in Main : Exit(t)
    \/ \E t \in Main : Terminate(t)
    \/ \E t \in Main : Wait(t)
    \/ \E line \in Lines : ChildRespond(line)
    \/ ChildCloseStdin
    \/ ChildCloseStdout
    \/ ChildExit

Spec == Init /\ [][Next]_vars

\* the operations and the response lines of the concurrent use
ConcMethods == {"embed", "delete_one"}
ConcLines == {"{\"data\":[0.1,0.2]}\n", "{\"error\":\"not found\"}\n"}

\* several callers issue calls on the same bridge at the same time
NextConc ==
    \/ \E t \in Callers : \E m \in ConcMethods : \E x \in PlainInputs : Poll(t, m, x)
    \/ \E t \in Callers : Write(t)
    \/ \E t \in Callers : Read(t)
    \/ \E line \in ConcLines : ChildRespond(line)
    \/ ChildExit

SpecConc == Init /\ [][NextConc]_vars

\* the operation and the response line of the runs that start at __init__
CtorMethods == {"init"}
CtorLines == {"{\"data\":null}\n"}

\* one caller constructs the bridge, uses it and closes it
NextCtor ==
    \/ \E t \in Main : \E node_path \in NodeArgs : \E script_path \in ScriptArgs :
          \E colocated \in BOOLEAN : Construct(t, node_path, script_path, colocated)
    \/ \E t \in Main : \E m \in CtorMethods : \E x \in PlainInputs : Poll(t, m, x)
    \/ \E t \in Main : Write(t)
    \/ \E t \in Main : Read(t)
    \/ \E t \in Main : Close(t)
    \/ \E t \in Main : Terminate(t)
    \/ \E t \in Main : Wait(t)
    \/ \E line \in CtorLines : ChildRespond(line)
    \/ ChildExit

SpecCtor == InitCtor /\ [][NextCtor]_vars

\* the operation and the response lines of the runs that look at termination
LiveMethods == {"find"}
LiveLines == {"{\"data\":[0.1,0.2]}\n", "not json\n"}

\* one caller issues calls; the child answers, closes a stream or exits
NextLive ==
    \/ \E t \in Main : \E m \in LiveMethods : \E x \in PlainInputs : Poll(t, m, x)
    \/ \E t \in Main : Write(t)
    \/ \E t \in Main : Read(t)
    \/ \E line \in LiveLines : ChildRespond(line)
    \/ ChildCloseStdin
    \/ ChildCloseStdout
    \/ ChildExit

\* the child prints a line, closes its output or exits
ChildSpeaksOrEnds ==
    \/ \E line \in LiveLines : ChildRespond(line)
    \/ ChildCloseStdout
    \/ ChildExit

\* a caller inside _send_command goes on running (the write and the read
\* are taken when they can be), and the child does not stay alive and silent
\* for ever
SpecLive ==
    /\ Init
    /\ [][NextLive]_vars
    /\ \A t \in Main : WF_vars(Write(t)) /\ WF_vars(Read(t))
    /\ WF_vars(ChildSpeaksOrEnds)

\* the operations that take a path, and the response line of their runs
PathMethods == {"add_file", "remove_file", "embed"}
ArgLines == {"{\"data\":null}\n"}

\* one caller passes every kind of path to the operations that take one
NextArgs ==
    \/ \E t \in Main : \E m \in PathMethods : \E x \in Inputs : Poll(t, m, x)
    \/ \E t \in Main : Write(t)
    \/ \E t \in Main : Read(t)
    \/ \E line \in ArgLines : ChildRespond(line)
    \/ ChildExit

SpecArgs == Init /\ [][NextArgs]_vars

(***************************************************************************)
(* Vocabulary of the properties.  The code raises RuntimeError for every   *)
(* failure it translates; the failure kinds of the specification are told  *)
(* apart by the line that raises.                                          *)
(***************************************************************************)
ProcessTerminatedError(r) == r.kind = "RuntimeError" /\ r.at \in {39, 57}
ProtocolError(r)          == r.kind = "RuntimeError" /\ r.at = 48
MalformedResponseError(r) == r.kind = "RuntimeError" /\ r.at = 59
RemoteOperationError(r)   == r.kind = "RuntimeError" /\ r.at = 53
ConfigurationError(r)     == r.kind = "FileNotFoundError" /\ r.at \in {20, 32}
EncodingError(r)          == r.kind = "TypeError" /\ r.at = 41

\* a step that starts a call, and the steps of caller t inside a call
CallStarts == calls' = calls + 1
Polls(t)   == pc[t] = "idle" /\ calls' = calls + 1
                 /\ (pc'[t] = "write" \/ result'[t] # result[t])
Writes(t)  == pc[t] = "write" /\ pc'[t] # "write"
Reads(t)   == pc[t] = "read" /\ pc'[t] = "idle"

\* the call fails at line 39: no caller moves on to the write or the read
FailsAtLivenessCheck ==
    /\ pc' = pc
    /\ inq' = inq
    /\ outq' = outq
    /\ \E t \in Callers : pc[t] = "idle" /\ ProcessTerminatedError(result'[t])
                             /\ result'[t].at = 39

\* the envelope on the line has an error field that is a non-empty string
ErrorNonEmpty(line) ==
    LET r == json_loads(line) IN
    r.ok /\ r.ty = "dict" /\ r.error.ty = "str" /\ r.error.v # ""

\* the line is well-formed JSON holding an object
IsEnvelope(line) == json_loads(line).ok /\ json_loads(line).ty = "dict"

\* C1: once a close() has returned, every call that starts fails at the
\* liveness check of line 38-39: no command is written, no line is read and
\* the caller is not left waiting.
C1_CallAfterCloseFails ==
    [][(closed /\ CallStarts) => FailsAtLivenessCheck]_vars

C1_Witness ==
    /\ closed
    /\ lateCall
    /\ \E t \in Callers : pc[t] = "idle" /\ result[t].at = 39

\* C2: a close() that starts after a close() has returned, or after the child
\* has exited, raises nothing, is not left waiting, and when it has returned
\* the child has exited and the return code is known.
C2_CloseIdempotent ==
    \A t \in Callers :
        (closepre[t].second \/ closepre[t].dead) =>
            /\ closeres[t] # "BrokenPipeError"
            /\ (pc[t] = "wait" => PollCode = "set")
            /\ (closeres[t] = "returned" =>
                   returncode = "set" /\ childState = "exited")

\* C3: once a with-block has been left, the child has exited.
C3_ScopeLeftChildExited ==
    \A t \in Callers : scope[t] = "left" => childState = "exited"

\* C4: at most one command is in flight (written, its response not yet read)
\* at any time, and a call that read a line read the line the child printed
\* for that call's own command.
C4_CallsSerialized ==
    /\ Cardinality({t \in Callers : pc[t] = "read"}) <= 1
    /\ \A t \in Callers :
           (pc[t] = "idle" /\ result[t].line # "") => result[t].re = cur[t].id

\* C5: a response whose error field is a non-empty string makes the call
\* raise the error of line 53 with that string in its message, and leaves the
\* return code and the streams as they were; with the child still running the
\* caller's next call passes line 38 and, with the child still reading, its
\* command goes into the pipe and the call goes on to the read.
C5_RemoteErrorKeepsBridge ==
    [][\A t \in Callers :
         /\ (Reads(t) /\ outq # <<>> /\ ErrorNonEmpty(Head(outq).line)) =>
                /\ RemoteOperationError(result'[t])
                /\ result'[t].msg =
                       "Hive Error: " \o json_loads(Head(outq).line).error.v
                /\ UNCHANGED <<returncode, stdinClosed, pending, childVars>>
         /\ (RemoteOperationError(result[t]) /\ childState = "running" /\ Polls(t))
                => pc'[t] = "write"
         /\ (RemoteOperationError(result[t]) /\ childIn = "open" /\ Writes(t))
                => \/ pc'[t] = "read" /\ inq' = Append(inq, cur[t])
                   \/ result'[t].kind = "TypeError"
      ]_vars

C5_Witness ==
    \E t \in Callers :
        /\ RemoteOperationError(result[t])
        /\ result[t].msg = "Hive Error: not found"
        /\ pc[t] = "read"
        /\ childState = "running"

\* C6: for a line that holds an envelope, the call fails if and only if the
\* error field is a non-empty string; otherwise it returns the data field,
\* and None when data is null or missing.
C6_FailsIffErrorNonEmpty ==
    \A t \in Callers :
        (result[t].line # "" /\ IsEnvelope(result[t].line)) =>
            LET r == json_loads(result[t].line) IN
            /\ (result[t].kind # "return") <=> ErrorNonEmpty(result[t].line)
            /\ ~ErrorNonEmpty(result[t].line) =>
                   /\ result[t].kind = "return"
                   /\ result[t].val =
                          IF r.data.ty \in {"absent", "None"} THEN PyNone ELSE r.data

C6_Witness ==
    \E t \in Callers :
        /\ result[t].line = "{\"error\":\"\"}\n"
        /\ result[t].kind = "return"
        /\ result[t].val = PyNone

\* C7: a call that starts when the child has exited fails with the error of
\* line 39 before any command is written or any line is read.
C7_DeadChildFailsBeforeWrite ==
    [][(childState = "exited" /\ CallStarts) => FailsAtLivenessCheck]_vars

C7_Witness ==
    /\ childState = "exited"
    /\ closes = 0
    /\ \E t \in Callers : pc[t] = "idle" /\ result[t].at = 39

\* C8: a call whose command was written and whose read finds the child
\* exited with no line printed fails with the process-terminated kind.
C8_DeathInFlightIsProcessTerminated ==
    [][\A t \in Callers :
         (Reads(t) /\ outq = <<>> /\ childState = "exited")
             => ProcessTerminatedError(result'[t])]_vars

\* C9: a read that returns the empty string makes the call raise the error of
\* line 48 and leaves the return code and the streams as they were; with the
\* child still running the caller's next call passes line 38 and, with the
\* child still reading, its command goes into the pipe.
C9_NoResponseKeepsBridge ==
    [][\A t \in Callers :
         /\ (Reads(t) /\ outq = <<>>) =>
                /\ ProtocolError(result'[t])
                /\ UNCHANGED <<returncode, stdinClosed, pending, childVars>>
         /\ (ProtocolError(result[t]) /\ childState = "running" /\ Polls(t))
                => pc'[t] = "write"
         /\ (ProtocolError(result[t]) /\ childIn = "open" /\ Writes(t))
                => \/ pc'[t] = "read" /\ inq' = Append(inq, cur[t])
                   \/ result'[t].kind = "TypeError"
      ]_vars

C9_Witness ==
    \E t \in Callers :
        /\ ProtocolError(result[t])
        /\ pc[t] = "read"
        /\ childState = "running"
        /\ childOut = "closed"

\* C10: a line that is not empty and does not hold an envelope makes the call
\* fail with the error of line 59, whose message carries the line.
C10_UndecodableIsMalformed ==
    \A t \in Callers :
        (result[t].line # "" /\ ~IsEnvelope(result[t].line)) =>
            /\ MalformedResponseError(result[t])
            /\ result[t].msg =
                   "Failed to decode response from Hive: " \o result[t].line

\* C12: every command written to the child by add_file or remove_file has an
\* absolute filePath, and every command written by embed with type "image"
\* has an absolute input.
C12_PathsAbsolute ==
    \A i \in 1..Len(inq) :
        /\ inq[i].action \in {"addFile", "removeFile"} => isabs(inq[i].args.filePath)
        /\ (inq[i].action = "embed" /\ inq[i].args.type = "image")
               => isabs(inq[i].args.input)

\* the script __init__ looks for
ScriptOf(script_path) == IF script_path = "None" THEN DefaultScript ELSE script_path

\* C11: a construction whose script does not exist raises the error of line
\* 20, whatever the executable is, and leaves no child process and no bridge.
C11_MissingScriptNoProcess ==
    [][\A t \in Callers : \A node_path \in NodeArgs : \A script_path \in ScriptArgs :
         \A colocated \in BOOLEAN :
           (/\ Construct(t, node_path, script_path, colocated)
            /\ ~os_path_exists(ScriptOf(script_path), colocated))
           => /\ ConfigurationError(result'[t])
              /\ result'[t].at = 20
              /\ childState' = "none"
              /\ pc'[t] = "new"
      ]_vars

C11_Witness ==
    \E t \in Callers :
        /\ result[t].kind = "FileNotFoundError"
        /\ result[t].msg = "Could not find hive_cli.js at missing.js"
        /\ childState = "none"
        /\ pc[t] = "new"

\* C17: a construction whose script exists and whose executable is missing or
\* cannot be executed raises the error of line 32, which is not the one of
\* line 20, and leaves no child process and no bridge.
C17_BadExecutableIsConfigurationError ==
    [][\A t \in Callers : \A node_path \in NodeArgs : \A script_path \in ScriptArgs :
         \A colocated \in BOOLEAN :
           (/\ Construct(t, node_path, script_path, colocated)
            /\ os_path_exists(ScriptOf(script_path), colocated)
            /\ node_path # "node")
           => /\ ConfigurationError(result'[t])
              /\ result'[t].at = 32
              /\ childState' = "none"
              /\ pc'[t] = "new"
      ]_vars

\* caller t is inside a call of _send_command
InCall(t) == pc[t] \in {"write", "read"}

\* C13: a write that finds the pipe broken (the child has exited or closed
\* its input after the liveness check) makes the call raise the error of
\* line 57, and the call ends there: no line is read from the child's output.
C13_BrokenPipeIsProcessTerminated ==
    [][\A t \in Callers :
         (/\ Writes(t)
          /\ cur[t].args.serializable
          /\ ~stdinClosed
          /\ childIn = "closed")
         => /\ ProcessTerminatedError(result'[t])
            /\ result'[t].at = 57
            /\ pc'[t] = "idle"
            /\ outq' = outq
            /\ consumed' = consumed
            /\ written' = written
      ]_vars

C13_Witness ==
    \E t \in Callers :
        /\ result[t].at = 57
        /\ pc[t] = "idle"
        /\ childState = "exited"
        /\ returncode = "None"
        /\ consumed = 0

\* C15: inside a call the liveness check comes first, then one write, then
\* one read, and nothing is done twice: a caller gets to the write only from
\* a liveness check that found the child running, gets to the read only from
\* a write that put its command into the pipe, and leaves the read only by
\* ending the call; a command line is written only by that write step and a
\* response line is consumed only by that read step, one line each.
C15_CallStepsInOrder ==
    [][/\ \A t \in Callers :
            /\ (pc'[t] = "write" /\ pc[t] # "write") =>
                   /\ pc[t] = "idle"
                   /\ calls' = calls + 1
                   /\ childState = "running"
                   /\ UNCHANGED <<inq, outq, written, consumed>>
            /\ (pc'[t] = "read" /\ pc[t] # "read") =>
                   /\ pc[t] = "write"
                   /\ inq' = Append(inq, cur[t])
                   /\ written' = written + 1
                   /\ UNCHANGED <<outq, consumed>>
            /\ (pc[t] = "write" /\ pc'[t] # "write") => pc'[t] \in {"read", "idle"}
            /\ (pc[t] = "read" /\ pc'[t] # "read") => pc'[t] = "idle"
       /\ written' # written =>
              /\ written' = written + 1
              /\ \E t \in Callers : pc[t] = "write" /\ pc'[t] = "read"
       /\ consumed' # consumed =>
              /\ consumed' = consumed + 1
              /\ outq' = Tail(outq)
              /\ \E t \in Callers : pc[t] = "read" /\ pc'[t] = "idle"
       /\ Len(outq') < Len(outq) => consumed' = consumed + 1
       /\ (\A t \in Callers : ~InCall(t)) => UNCHANGED <<written, consumed>>
      ]_vars

C15_Witness ==
    \E t \in Callers :
        /\ pc[t] = "idle"
        /\ result[t].kind = "return"
        /\ calls = 1
        /\ written = 1
        /\ consumed = 1

\* C16: a call whose args cannot be serialized raises the error of line 41
\* and nothing reaches the child: no command line or part of one is written,
\* no response line is consumed, the return code and the streams stay as they
\* were; with the child still running the caller's next call passes line 38.
C16_UnserializableWritesNothing ==
    [][\A t \in Callers :
         /\ (Writes(t) /\ ~cur[t].args.serializable) =>
                /\ EncodingError(result'[t])
                /\ pc'[t] = "idle"
                /\ UNCHANGED <<inq, outq, written, consumed>>
                /\ UNCHANGED <<returncode, stdinClosed, pending, childVars>>
         /\ (EncodingError(result[t]) /\ childState = "running" /\ Polls(t))
                => pc'[t] = "write"
      ]_vars

C16_Witness ==
    \E t \in Callers :
        /\ EncodingError(result[t])
        /\ written = 0
        /\ pc[t] = "write"
        /\ cur[t].args.serializable

\* C18 as claimed: whenever no call is in progress the number of command
\* lines written equals the number of response lines consumed, and a call
\* that read a line read the response to its own command.
C18_WrittenEqualsConsumed ==
    /\ (\A t \in Callers : ~InCall(t)) => written = consumed
    /\ \A t \in Callers :
           (pc[t] = "idle" /\ result[t].line # "") => result[t].re = cur[t].id

\* C18 as amended: whenever no call is in progress and the child's output is
\* still open, the number of command lines written equals the number of
\* response lines consumed; once the child has exited or closed its output a
\* written command may stay unanswered, and then at most one per call that
\* failed at the read; in every case a call that read a line read the
\* response to its own command, and no response is left in the pipe.
C18_NoStaleResponse ==
    /\ (\A t \in Callers : ~InCall(t)) =>
           /\ childOut = "open" => written = consumed
           /\ consumed <= written
           /\ outq = <<>>
    /\ \A t \in Callers :
           (pc[t] = "idle" /\ result[t].line # "") => result[t].re = cur[t].id

C18_Witness ==
    \E t \in Callers :
        /\ pc[t] = "idle"
        /\ written = 2
        /\ consumed = 2
        /\ childOut = "open"
        /\ result[t].line # ""
        /\ result[t].re = cur[t].id
        /\ cur[t].id = 2

\* C14: close() closes the child's input, then requests termination, then
\* waits: a close() that starts closes stdin and goes on to terminate(),
\* terminate() is followed by wait(), and close() ends only by returning from
\* wait(), with the child exited.
C14_CloseInOrderAndReturns ==
    [][/\ closes' = closes + 1 =>
              \E t \in Callers :
                  pc[t] = "idle" /\ pc'[t] = "terminate" /\ stdinClosed'
       /\ \A t \in Callers :
              /\ (pc[t] = "terminate" /\ pc'[t] # "terminate") =>
                     pc'[t] = "wait" /\ (sigterm' \/ childState = "exited")
              /\ (pc[t] = "wait" /\ pc'[t] # "wait") =>
                     /\ pc'[t] = "idle"
                     /\ closeres'[t] = "returned"
                     /\ childState = "exited"
              /\ closeres'[t] # closeres[t] =>
                     \/ closeres'[t] = "none" /\ pc'[t] = "terminate"
                     \/ closeres'[t] = "returned" /\ pc[t] = "wait"
                            /\ childState = "exited"
      ]_vars

\* the read of caller t has nothing to return yet
ReadBlocked(t) == pc[t] = "read" /\ outq = <<>> /\ childOut # "closed"

\* C19: a call that has passed the liveness check ends (returns or raises),
\* given that the child does not stay alive and silent for ever; and a read
\* that cannot return finds the child running with its output open and no
\* line printed.
C19_CallEnds ==
    /\ \A t \in Callers : InCall(t) ~> pc[t] = "idle"
    /\ [](\A t \in Callers :
            /\ (pc[t] = "read" /\ ~ENABLED Read(t)) <=> ReadBlocked(t)
            /\ ReadBlocked(t) => childState = "running" /\ childOut = "open"
            /\ pc[t] = "write" => ENABLED Write(t))

C19_Witness ==
    \E t \in Callers :
        /\ pc[t] = "idle"
        /\ result[t].at = 48
        /\ written = 1
        /\ consumed = 0
        /\ childState = "exited"

====
